---------------------------- MODULE Spec2Model ----------------------------
(***************************************************************************)
(* Model of the webtiles server configuration object, class Conf of        *)
(* crawl-ref/source/webserver/conf.py.                                      *)
(*                                                                         *)
(* The instance is modelled by its attribute dictionary: `attrs' maps the   *)
(* names of the attributes that have been assigned to their values, so an  *)
(* attribute that was never assigned is a name missing from DOMAIN attrs,   *)
(* exactly the case in which Python falls back to Conf.__getattr__.         *)
(* Strings are sequences of character codes, so that str.lower() is         *)
(* computed and not assumed.  Python dictionaries are functions, absent     *)
(* keys are names missing from the domain.                                  *)
(***************************************************************************)
EXTENDS Integers, Sequences, FiniteSets, TLC

VARIABLES
    attrs,   \* the instance's attribute dictionary (self.__dict__)
    disk,    \* the documents most recently read: config, rosters, fragments
    exc,     \* "none", or the exception the last operation raised
    last,    \* the operation that ran last
    nloads,  \* how many times the documents have been (re)loaded
    pc,      \* position of a reload in progress inside load(), 0 when idle
    prev,    \* attrs as they were when the reload in progress began
    seen     \* what a reader observed during the reload in progress

vars == <<attrs, disk, exc, last, nloads, pc, prev, seen>>

----------------------------------------------------------------------------
(* Strings *)

\* "a", "A", "b", "B": account names
a == <<97>>
A == <<65>>
b == <<98>>
B == <<66>>
\* "s", "S", "c", "C": title names
s == <<115>>
S == <<83>>
c == <<99>>
C == <<67>>

\* Python's None, where a string is expected
None == <<0>>

STR_admins  == <<97, 100, 109, 105, 110, 115>>
STR_devteam == <<100, 101, 118, 116, 101, 97, 109>>
STR_normal  == <<110, 111, 114, 109, 97, 108>>

\* str.lower() on ASCII
lower(str) == [i \in DOMAIN str |-> IF str[i] \in 65..90 THEN str[i] + 32 ELSE str[i]]

Range(seq) == {seq[i] : i \in DOMAIN seq}

LowerAll(seq) == [i \in DOMAIN seq |-> lower(seq[i])]

\* str < str, as sorted() compares paths
RECURSIVE LexLess(_, _)
LexLess(x, y) ==
    IF y = <<>> THEN FALSE
    ELSE IF x = <<>> THEN TRUE
    ELSE IF Head(x) # Head(y) THEN Head(x) < Head(y)
    ELSE LexLess(Tail(x), Tail(y))

----------------------------------------------------------------------------
(* Dictionaries and attribute access *)

EmptyDict == [k \in {} |-> <<>>]

\* d[k] = v
DictSet(d, k, v) == [x \in DOMAIN d \cup {k} |-> IF x = k THEN v ELSE d[x]]

\* the value of self.data before the first load
NoneData == [None |-> TRUE]

\* the machine state an operation works on: the attributes and the
\* exception raised so far
Machine(at) == [attrs |-> at, exc |-> "none"]

Raise(m, e) == [m EXCEPT !.exc = e]

SetAttr(m, n, v) == [m EXCEPT !.attrs = DictSet(m.attrs, n, v)]

\* Conf.get: self.data.get(key), a missing key gives None (falsy)
HasKey(at, k) == k \in DOMAIN at.data

\* truthiness of self.get(k) where the value is a list or a string
get_truthy(at, k) == HasKey(at, k) /\ at.data[k] # <<>>

\* truthiness of self.get(k) where the value is a boolean
get_flag(at, k) == HasKey(at, k) /\ at.data[k]

\* attribute lookup: the instance dictionary first, then Conf.__getattr__,
\* which reads self.data[name] and turns KeyError into AttributeError
HasAttr(at, n) == n \in DOMAIN at \/ n \in DOMAIN at.data

GetAttr(at, n) == IF n \in DOMAIN at THEN at[n] ELSE at.data[n]

----------------------------------------------------------------------------
(* Conf.load, statement by statement *)

\* self.devteam = {}
load_devteam_reset(m) == SetAttr(m, "devteam", EmptyDict)

\* self.data = toml.load(self.path)
load_data(m, dk) == SetAttr(m, "data", dk.conf)

\* if self.get("server_admins"): self.admins = set(lowercased)
load_admins(m) ==
    IF get_truthy(m.attrs, "server_admins")
    THEN SetAttr(m, "admins", {lower(u) : u \in Range(m.attrs.data["server_admins"])})
    ELSE m

\* if self.get("server_janitors"): self.janitors = set(lowercased)
load_janitors(m) ==
    IF get_truthy(m.attrs, "server_janitors")
    THEN SetAttr(m, "janitors", {lower(u) : u \in Range(m.attrs.data["server_janitors"])})
    ELSE m

\* self.janitors.update(self.admins)
load_janitors_update(m) ==
    IF ~HasAttr(m.attrs, "janitors") \/ ~HasAttr(m.attrs, "admins")
    THEN Raise(m, "AttributeError")
    ELSE SetAttr(m, "janitors",
                 GetAttr(m.attrs, "janitors") \cup GetAttr(m.attrs, "admins"))

\* the body of `for row in devteam_r', for the rows that remain
RECURSIVE load_devteam_rows(_, _)
load_devteam_rows(m, rows) ==
    IF rows = <<>> THEN m
    ELSE LET row == Head(rows) IN
         IF Len(row) = 0 THEN Raise(m, "IndexError")
         ELSE LET m1 == SetAttr(m, "devteam",
                                DictSet(m.attrs.devteam, row[1], LowerAll(Tail(row))))
                  m2 == IF get_flag(m1.attrs, "devs_are_server_janitors")
                        THEN SetAttr(m1, "janitors",
                                     GetAttr(m1.attrs, "janitors") \cup Range(row))
                        ELSE m1
              IN load_devteam_rows(m2, Tail(rows))

\* devteam_file = self.get("devteam_file"); if devteam_file: ...
load_devteam(m, dk) ==
    IF get_truthy(m.attrs, "devteam_file")
    THEN load_devteam_rows(m, dk.devteam)
    ELSE m

\* the body of `for row in title_r', for the rows that remain
RECURSIVE load_title_rows(_, _)
load_title_rows(m, rows) ==
    IF rows = <<>> THEN m
    ELSE LET row == Head(rows) IN
         IF Len(row) = 0 THEN Raise(m, "IndexError")
         ELSE load_title_rows(
                  SetAttr(m, "player_titles",
                          DictSet(m.attrs.player_titles, lower(row[1]),
                                  LowerAll(Tail(row)))),
                  Tail(rows))

load_player_titles(m, dk) ==
    IF ~(get_truthy(m.attrs, "title_names") /\ get_truthy(m.attrs, "player_title_file"))
    THEN m
    ELSE load_title_rows(SetAttr(m, "player_titles", EmptyDict), dk.titles)

\* the documents of the model define no janitor_commands: the early return
load_janitor_commands(m) == SetAttr(m, "janitor_commands", EmptyDict)

\* the statements of load() in order; a statement is skipped once an
\* exception has been raised
LoadSteps == 8

load_step(k, m, dk) ==
    IF m.exc # "none" THEN m
    ELSE CASE k = 1 -> load_devteam_reset(m)
           [] k = 2 -> load_data(m, dk)
           [] k = 3 -> load_admins(m)
           [] k = 4 -> load_janitors(m)
           [] k = 5 -> load_janitors_update(m)
           [] k = 6 -> load_devteam(m, dk)
           [] k = 7 -> load_player_titles(m, dk)
           [] k = 8 -> load_janitor_commands(m)

RECURSIVE load_from(_, _, _)
load_from(k, m, dk) ==
    IF k > LoadSteps THEN m ELSE load_from(k + 1, load_step(k, m, dk), dk)

load(m, dk) == load_from(1, m, dk)

----------------------------------------------------------------------------
(* Conf.init_logging *)

\* logging_config = self.logging_config; the rest configures the logging
\* module and leaves the instance alone
init_logging(m) ==
    IF m.exc # "none" THEN m
    ELSE IF ~HasAttr(m.attrs, "logging_config") THEN Raise(m, "AttributeError")
    ELSE m

----------------------------------------------------------------------------
(* Conf.load_games *)

\* game["game_maps"] = data["maps"], when the game has map_path and score_path
_load_game_map(game, dk) ==
    IF "map_path" \notin DOMAIN game THEN game
    ELSE IF "score_path" \notin DOMAIN game THEN game
    ELSE DictSet(game, "game_maps", dk.maps[game["map_path"]]["maps"])

\* ValueError of _load_game_data
IsDuplicate(m, game) == game["id"] \in DOMAIN m.attrs.games

\* self._load_game_map(game); self.games[game["id"]] = game
_load_game_data(m, game, dk) ==
    SetAttr(m, "games", DictSet(m.attrs.games, game["id"], _load_game_map(game, dk)))

\* data["games"][i] = game: the registered dictionary is the very object
\* that the inline list holds, so the list sees the attached game_maps
SetInline(m, i, game) ==
    SetAttr(m, "data", [m.attrs.data EXCEPT !["games"][i] = game])

\* `for game in self.data["games"]', from index i on
RECURSIVE load_inline_games(_, _, _)
load_inline_games(m, i, dk) ==
    IF i > Len(m.attrs.data["games"]) THEN m
    ELSE LET game == m.attrs.data["games"][i] IN
         IF IsDuplicate(m, game)
         THEN load_inline_games(m, i + 1, dk)
         ELSE load_inline_games(
                  SetInline(_load_game_data(m, game, dk), i, _load_game_map(game, dk)),
                  i + 1, dk)

\* sorted(): insertion into a sorted sequence
RECURSIVE Insert(_, _)
Insert(x, seq) ==
    IF seq = <<>> THEN <<x>>
    ELSE IF LexLess(x, Head(seq)) THEN <<x>> \o seq
    ELSE <<Head(seq)>> \o Insert(x, Tail(seq))

\* sorted() left out: the files in the order glob.glob lists them
sorted_unsorted(seq) == seq

RECURSIVE sorted(_)
sorted(seq) == IF seq = <<>> THEN <<>> ELSE Insert(Head(seq), sorted(Tail(seq)))

\* self.data["games"].append(game)
AppendGame(m, game) ==
    SetAttr(m, "data", [m.attrs.data EXCEPT !["games"] = Append(@, game)])

\* `for game in data["games"]' of one fragment file
RECURSIVE load_fragment_games(_, _, _)
load_fragment_games(m, games, dk) ==
    IF games = <<>> THEN m
    ELSE LET game == Head(games) IN
         IF IsDuplicate(m, game)
         THEN load_fragment_games(m, Tail(games), dk)
         ELSE load_fragment_games(
                  AppendGame(_load_game_data(m, game, dk), _load_game_map(game, dk)),
                  Tail(games), dk)

\* `for f in sorted(glob.glob(conf_dir + "/*.toml"))', for the files that remain
RECURSIVE load_fragment_files(_, _, _)
load_fragment_files(m, files, dk) ==
    IF files = <<>> THEN m
    ELSE LET data == dk.frags.files[Head(files)] IN
         IF "games" \notin DOMAIN data
         THEN load_fragment_files(m, Tail(files), dk)
         ELSE load_fragment_files(load_fragment_games(m, data["games"], dk),
                                  Tail(files), dk)

_load_game_conf_dir(m, dk) ==
    IF ~get_truthy(m.attrs, "games_conf_d") THEN m
    ELSE IF ~dk.frags.isdir THEN m
    ELSE load_fragment_files(m, sorted(dk.frags.listing), dk)

load_games(m, dk) ==
    IF m.exc # "none" THEN m
    ELSE LET m1 == SetAttr(m, "games", EmptyDict)
             m2 == IF get_truthy(m1.attrs, "games")
                   THEN load_inline_games(m1, 1, dk)
                   ELSE SetAttr(m1, "data", DictSet(m1.attrs.data, "games", <<>>))
         IN _load_game_conf_dir(m2, dk)

\* Conf.__init__
construct(m, dk) == load_games(init_logging(load(m, dk)), dk)

----------------------------------------------------------------------------
(* The accessors *)

\* a returned value, or the exception raised instead
Ret(v) == [val |-> v, exc |-> "none"]
Exc(e) == [val |-> FALSE, exc |-> e]

\* return self.admins and username.lower() in self.admins  (its truth value)
is_server_admin(at, username) ==
    IF ~HasAttr(at, "admins") THEN Exc("AttributeError")
    ELSE Ret(GetAttr(at, "admins") # {} /\ lower(username) \in GetAttr(at, "admins"))

\* return self.janitors and username.lower() in self.janitors
is_server_janitor(at, username) ==
    IF ~HasAttr(at, "janitors") THEN Exc("AttributeError")
    ELSE Ret(GetAttr(at, "janitors") # {} /\ lower(username) \in GetAttr(at, "janitors"))

\* The values get_devname can return.  The roster is a dictionary, whose
\* iteration order is arbitrary: when several keys match, any of them may
\* be the first one met.
get_devname(at, username) ==
    LET lname == lower(username)
        devteam == GetAttr(at, "devteam")
        hits == {d \in DOMAIN devteam :
                    lower(d) = lname \/ lname \in Range(devteam[d])}
    IN IF DOMAIN devteam = {} THEN {None}
       ELSE IF hits = {} THEN {None}
       ELSE hits

\* the loop of _get_player_title over title_names[i..], title so far given
RECURSIVE last_title(_, _, _, _)
last_title(at, username, i, title) ==
    LET title_names == at.data["title_names"]
        player_titles == GetAttr(at, "player_titles")
    IN IF i > Len(title_names) THEN title
       ELSE LET t == title_names[i] IN
            IF t \notin DOMAIN player_titles
            THEN last_title(at, username, i + 1, title)
            ELSE IF lower(username) \in Range(player_titles[t])
            THEN last_title(at, username, i + 1, t)
            ELSE last_title(at, username, i + 1, title)

_get_player_title(at, username) ==
    IF ~HasAttr(at, "player_titles") THEN [val |-> None, exc |-> "AttributeError"]
    ELSE IF DOMAIN GetAttr(at, "player_titles") = {} THEN [val |-> None, exc |-> "none"]
    ELSE IF ~get_truthy(at, "title_names") THEN [val |-> None, exc |-> "none"]
    ELSE [val |-> last_title(at, username, 1, None), exc |-> "none"]

Nerd(type, devname) == [type |-> type, devname |-> devname, exc |-> "none"]
NerdExc(e) == [type |-> None, devname |-> None, exc |-> e]

\* The results get_nerd can give: one for each value get_devname can return.
get_nerd(at, username) ==
    LET admin == is_server_admin(at, username) IN
    IF admin.exc # "none" THEN {NerdExc(admin.exc)}
    ELSE IF admin.val THEN {Nerd(STR_admins, None)}
    ELSE { IF devname # None /\ devname # <<>>
           THEN Nerd(STR_devteam, devname)
           ELSE LET title == _get_player_title(at, username) IN
                IF title.exc # "none" THEN NerdExc(title.exc)
                ELSE IF title.val # None /\ title.val # <<>>
                THEN Nerd(title.val, None)
                ELSE Nerd(STR_normal, None)
           : devname \in get_devname(at, username) }

NoGame == [None |-> TRUE]

\* The values get_game can return: self.games is iterated in dictionary
\* order, so any matching game may be the first one met.
get_game(at, game_version, game_mode) ==
    LET games == GetAttr(at, "games")
        hits == {id \in DOMAIN games :
                    /\ "mode" \in DOMAIN games[id]
                    /\ "version" \in DOMAIN games[id]
                    /\ games[id]["mode"] = game_mode
                    /\ games[id]["version"] = game_version}
    IN IF DOMAIN games = {} THEN {NoGame}
       ELSE IF hits = {} THEN {NoGame}
       ELSE {games[id] : id \in hits}

\* Conf.get(key): a one-element sequence holding the value, empty for None
get(at, key) == IF HasKey(at, key) THEN <<at.data[key]>> ELSE <<>>

----------------------------------------------------------------------------
(* The documents read from disk *)

MaxDevRows == 2
MaxTitleRows == 2
MaxInline == 2
MaxFragGames == 1
MaxLoads == 2

\* sequences over S of length at most n
SeqUpTo(S1, n) == UNION {[1..k -> S1] : k \in 0..n}

\* either nothing, or key k with one of the values
Opt(k, vals) == {EmptyDict} \cup {k :> v : v \in vals}

\* init_logging needs the logging_config table
BaseDoc == "logging_config" :> EmptyDict

\* "d", "t", "g": the paths of the developer roster, the title roster and
\* the fragment directory; "m", "p": a map file and a score directory
DevPath == <<100>>
TitlePath == <<116>>
ConfDir == <<103>>
MapPath == <<109>>
ScorePath == <<112>>

NoFrags == [isdir |-> FALSE, listing |-> <<>>, files |-> EmptyDict]

MapFiles == MapPath :> [maps |-> <<[name |-> <<76>>]>>]

Disk(conf, devteam, titles, frags) ==
    [conf |-> conf, devteam |-> devteam, titles |-> titles, frags |-> frags,
     maps |-> MapFiles]

\* rows of a roster file: a blank line is the row with no token
DevRows == {<<>>, <<b>>, <<B, a>>, <<a, B>>}
DevFiles == SeqUpTo(DevRows, MaxDevRows)

TitleRows == {<<>>, <<s, a, b>>, <<c, b>>, <<S, b>>}
TitleFiles == SeqUpTo(TitleRows, MaxTitleRows)

TitleNameLists == {<<s, c>>, <<c, S>>}

Users == {a, A, b}

\* configurations that vary the admins, the janitors and the developers
AuthInputs ==
    { Disk(BaseDoc @@ x1 @@ x2 @@ x3 @@ x4, rows, <<>>, NoFrags) :
        x1 \in Opt("server_admins", {<<>>, <<A>>}),
        x2 \in Opt("server_janitors", {<<b>>}),
        x3 \in Opt("devteam_file", {DevPath}),
        x4 \in Opt("devs_are_server_janitors", {TRUE}),
        rows \in DevFiles }

\* configurations that vary the titles
TitleInputs ==
    { Disk(BaseDoc @@ ("server_admins" :> <<A>>) @@ ("server_janitors" :> <<b>>)
               @@ ("devteam_file" :> DevPath) @@ x1 @@ x2,
           devrows, rows, NoFrags) :
        x1 \in Opt("title_names", TitleNameLists),
        x2 \in Opt("player_title_file", {TitlePath}),
        devrows \in {<<>>, <<<<B, a>>>>},
        rows \in TitleFiles }

\* game definitions: two of "g1" that differ, one of "g2"
GameDefs ==
    { [id |-> "g1", version |-> 1, mode |-> 1],
      [id |-> "g1", version |-> 2, mode |-> 1, map_path |-> MapPath, score_path |-> ScorePath],
      [id |-> "g2", version |-> 1, mode |-> 1, map_path |-> MapPath] }

InlineLists == SeqUpTo(GameDefs, MaxInline)

\* a fragment file: with a games list, or without the games section
FragDocs == {EmptyDict} \cup {"games" :> g : g \in SeqUpTo(GameDefs, MaxFragGames)}

\* "b.toml" and "ab.toml", by the part of the path that differs
FragNames == {<<98>>, <<97, 98>>}

\* the orders in which glob.glob can list the files N
Listings(N) ==
    {l \in [1..Cardinality(N) -> N] : \A i, j \in DOMAIN l : i # j => l[i] # l[j]}

FragDirs ==
    {NoFrags} \cup
    UNION { {[isdir |-> TRUE, listing |-> l, files |-> f] :
                l \in Listings(N), f \in [N -> FragDocs]} : N \in SUBSET FragNames }

\* configurations that vary the games and the fragment directory
GameInputs ==
    { Disk(BaseDoc @@ ("server_admins" :> <<A>>) @@ ("server_janitors" :> <<b>>)
               @@ x1 @@ x2,
           <<>>, <<>>, fr) :
        x1 \in Opt("games", InlineLists),
        x2 \in Opt("games_conf_d", {ConfDir}),
        fr \in FragDirs }

\* a file that the configuration does not name is not read
Used(dk) ==
    /\ "devteam_file" \notin DOMAIN dk.conf => dk.devteam = <<>>
    /\ "player_title_file" \notin DOMAIN dk.conf => dk.titles = <<>>
    /\ "games_conf_d" \notin DOMAIN dk.conf => dk.frags = NoFrags

Inputs == {dk \in AuthInputs \cup TitleInputs : Used(dk)}

GamesInputs == {dk \in GameInputs : Used(dk)}

\* the configurations a reload of the games specification reads: load()
\* reads no fragment, and one inline game is enough to change the list
GamesReloadInputs ==
    { Disk(BaseDoc @@ ("server_admins" :> <<A>>) @@ ("server_janitors" :> <<b>>)
               @@ x1 @@ x2,
           <<>>, <<>>, NoFrags) :
        x1 \in Opt("games", SeqUpTo(GameDefs, 1)),
        x2 \in Opt("games_conf_d", {ConfDir}) }

\* configurations that load without an exception
Loadable(dk) ==
    /\ "server_admins" \in DOMAIN dk.conf /\ dk.conf["server_admins"] # <<>>
    /\ "server_janitors" \in DOMAIN dk.conf
    /\ \A i \in DOMAIN dk.devteam : Len(dk.devteam[i]) > 0
    /\ \A i \in DOMAIN dk.titles : Len(dk.titles[i]) > 0

ReloadInputs == {dk \in Inputs : Loadable(dk) /\ Len(dk.devteam) <= 1 /\ Len(dk.titles) <= 1}

----------------------------------------------------------------------------
(* The operations *)

NoObs == [none |-> TRUE]

Init ==
    /\ attrs = [data |-> NoneData]
    /\ disk = Disk(NoneData, <<>>, <<>>, NoFrags)
    /\ exc = "none"
    /\ last = "new"
    /\ nloads = 0
    /\ pc = 0
    /\ prev = [data |-> NoneData]
    /\ seen = NoObs

\* the instance has not been constructed yet
New == last = "new"

\* Conf(): load(), init_logging(), load_games()
Construct(dk) ==
    /\ New
    /\ LET m == construct(Machine(attrs), dk) IN
       /\ attrs' = m.attrs
       /\ exc' = m.exc
    /\ disk' = dk
    /\ last' = "construct"
    /\ nloads' = 1
    /\ UNCHANGED <<pc, prev, seen>>

\* the instance is in service: constructed, no exception, no reload running
Idle == last # "new" /\ exc = "none" /\ pc = 0

\* a reload: config.load() on the documents as they are now; load() reads
\* no fragment, so disk keeps the fragments that load_games read
Reload(dk) ==
    /\ Idle
    /\ nloads < MaxLoads
    /\ dk.frags = NoFrags
    /\ LET m == load(Machine(attrs), dk) IN
       /\ attrs' = m.attrs
       /\ exc' = m.exc
    /\ disk' = [dk EXCEPT !.frags = disk.frags]
    /\ last' = "load"
    /\ nloads' = nloads + 1
    /\ UNCHANGED <<pc, prev, seen>>

\* SIGUSR2: config.load_player_titles() on the title roster as it is now
ReloadTitles(rows) ==
    /\ Idle
    /\ nloads < MaxLoads
    /\ "player_title_file" \in DOMAIN disk.conf
    /\ LET dk == [disk EXCEPT !.titles = rows]
           m == load_player_titles(Machine(attrs), dk)
       IN /\ attrs' = m.attrs
          /\ exc' = m.exc
          /\ disk' = dk
    /\ last' = "titles"
    /\ nloads' = nloads + 1
    /\ UNCHANGED <<pc, prev, seen>>

\* a reload begins on another execution context: load() is entered
BeginReload(dk) ==
    /\ Idle
    /\ nloads < MaxLoads
    /\ dk.frags = NoFrags
    /\ disk' = [dk EXCEPT !.frags = disk.frags]
    /\ prev' = attrs
    /\ pc' = 1
    /\ seen' = NoObs
    /\ nloads' = nloads + 1
    /\ UNCHANGED <<attrs, exc, last>>

\* the reload in progress runs its next statement
LoadStep ==
    /\ pc \in 1..LoadSteps
    /\ LET m == load_step(pc, Machine(attrs), disk) IN
       /\ attrs' = m.attrs
       /\ exc' = m.exc
       /\ pc' = IF m.exc # "none" \/ pc = LoadSteps THEN 0 ELSE pc + 1
       /\ last' = IF m.exc # "none" \/ pc = LoadSteps THEN "load" ELSE last
    /\ UNCHANGED <<disk, nloads, prev, seen>>

ObservedKeys == {"server_admins", "server_janitors", "devteam_file", "title_names"}

\* what the accessors return in a state
Observe(at) ==
    [ is_server_admin   |-> [u \in Users |-> is_server_admin(at, u)],
      is_server_janitor |-> [u \in Users |-> is_server_janitor(at, u)],
      get_nerd          |-> [u \in Users |-> get_nerd(at, u)],
      get_game          |-> get_game(at, 1, 1),
      get               |-> [k \in ObservedKeys |-> get(at, k)] ]

\* a reader runs while the reload is between two statements
Read ==
    /\ pc \in 1..LoadSteps
    /\ seen' = Observe(attrs)
    /\ UNCHANGED <<attrs, disk, exc, last, nloads, pc, prev>>

\* a reload may be asked for
MayReload == Idle /\ nloads < MaxLoads

\* the operations on the documents of a set of configurations
ConstructFrom(D) == New /\ \E dk \in D : Construct(dk)
ReloadFrom(D) == MayReload /\ \E dk \in D : Reload(dk)
BeginReloadFrom(D) == MayReload /\ \E dk \in D : BeginReload(dk)
ReloadTitlesFrom(F) == MayReload /\ \E rows \in F : ReloadTitles(rows)

Next ==
    \/ ConstructFrom(Inputs)
    \/ ReloadFrom(Inputs)
    \/ ReloadTitlesFrom(TitleFiles)

Spec == Init /\ [][Next]_vars

\* the games: construction, then reloads of the primary configuration
NextGames ==
    \/ ConstructFrom(GamesInputs)
    \/ ReloadFrom(GamesReloadInputs)

SpecGames == Init /\ [][NextGames]_vars

\* a reload that runs statement by statement while readers run
NextReload ==
    \/ ConstructFrom(ReloadInputs)
    \/ BeginReloadFrom(ReloadInputs)
    \/ LoadStep
    \/ Read

SpecReload == Init /\ [][NextReload]_vars

----------------------------------------------------------------------------
(* What the specification says about the identity state *)

\* a load of the primary configuration has just run
Loaded == last \in {"construct", "load"}

HasBlank(rows) == \E i \in DOMAIN rows : Len(rows[i]) = 0
NoBlankRows(dk) == ~HasBlank(dk.devteam) /\ ~HasBlank(dk.titles)

\* the developer roster keys that name the user, by key or by alternate
DevKeys(at, username) ==
    {d \in DOMAIN at.devteam :
        lower(d) = lower(username) \/ lower(username) \in Range(at.devteam[d])}

\* the user is in the title roster's row of title t, names and title
\* compared without regard to case
HoldsTitle(at, username, t) ==
    /\ "player_titles" \in DOMAIN at
    /\ \E k \in DOMAIN at.player_titles :
          /\ lower(k) = lower(t)
          /\ \E i \in DOMAIN at.player_titles[k] :
                lower(at.player_titles[k][i]) = lower(username)

\* the positions of title_names whose title the user holds
TitlePositions(at, username) ==
    IF ~HasKey(at, "title_names") THEN {}
    ELSE {i \in DOMAIN at.data["title_names"] :
             HoldsTitle(at, username, at.data["title_names"][i])}

IsAdmin(at, username) == "admins" \in DOMAIN at /\ lower(username) \in at.admins

\* C1: in every loaded state and for every username, get_nerd reports
\* "admins" for an admin, else "devteam" with the roster key in its
\* original case for a developer, else a title the user holds, else
\* "normal"; it never raises.
C1_NerdPrecedence ==
    Idle => \A u \in Users : \A r \in get_nerd(attrs, u) :
        /\ r.exc = "none"
        /\ IF IsAdmin(attrs, u)
           THEN r = Nerd(STR_admins, None)
           ELSE IF DevKeys(attrs, u) # {}
           THEN r.type = STR_devteam /\ r.devname \in DevKeys(attrs, u)
           ELSE IF TitlePositions(attrs, u) # {}
           THEN /\ r.devname = None
                /\ \E i \in TitlePositions(attrs, u) :
                      r.type = attrs.data["title_names"][i]
           ELSE r = Nerd(STR_normal, None)

\* C2: whatever the configuration (rosters without blank rows), load()
\* completes and the janitors hold every admin, so that an admin is a
\* janitor.
C2_JanitorsHoldAdmins ==
    (Loaded /\ NoBlankRows(disk)) =>
        /\ exc = "none"
        /\ "admins" \in DOMAIN attrs /\ "janitors" \in DOMAIN attrs
        /\ attrs.admins \subseteq attrs.janitors
        /\ \A u \in Users :
              is_server_admin(attrs, u).val => is_server_janitor(attrs, u).val

\* the configuration enables devs_are_server_janitors and names a roster
DevsAreJanitors(dk) ==
    /\ "devs_are_server_janitors" \in DOMAIN dk.conf
    /\ dk.conf["devs_are_server_janitors"]
    /\ "devteam_file" \in DOMAIN dk.conf

\* C3: with devs_are_server_janitors enabled, after load the janitors are
\* lowercased names and every name of every roster row is a janitor.
C3_DevsAreJanitors ==
    (Loaded /\ exc = "none" /\ DevsAreJanitors(disk)) =>
        /\ \A j \in attrs.janitors : lower(j) = j
        /\ \A i \in DOMAIN disk.devteam : \A n \in Range(disk.devteam[i]) :
              is_server_janitor(attrs, n).val

\* C5: a user who is neither admin nor developer is reported with the last
\* entry of title_names whose roster row contains the user.
C5_LastTitleWins ==
    Idle => \A u \in Users :
        (~IsAdmin(attrs, u) /\ DevKeys(attrs, u) = {} /\ TitlePositions(attrs, u) # {})
        => LET i == CHOOSE k \in TitlePositions(attrs, u) :
                        \A j \in TitlePositions(attrs, u) : j <= k
           IN get_nerd(attrs, u) = {Nerd(attrs.data["title_names"][i], None)}

\* the state of a fresh process that loads the documents now on disk
Fresh == construct(Machine([data |-> NoneData]), disk)

SameAttr(at1, at2, n) ==
    /\ (n \in DOMAIN at1) = (n \in DOMAIN at2)
    /\ n \in DOMAIN at1 => at1[n] = at2[n]

\* C7: after any sequence of loads the admins, the janitors, the two
\* rosters and the games list are those of a fresh process that loads the
\* most recent documents.
C7_ReloadReplacesAll ==
    Idle =>
        /\ Fresh.exc = "none"
        /\ \A n \in {"admins", "janitors", "devteam", "player_titles", "games"} :
              SameAttr(attrs, Fresh.attrs, n)
        /\ get(attrs, "games") = get(Fresh.attrs, "games")

\* the configuration names no title roster
TitlesAbsent(dk) ==
    "player_title_file" \notin DOMAIN dk.conf \/ "title_names" \notin DOMAIN dk.conf

\* C8: when no title roster is configured, load succeeds and get_nerd
\* gives "normal", without raising, for every user who is neither admin
\* nor developer (every non-admin when no developer roster is configured).
C8_AbsentRosterIsEmpty ==
    (Idle /\ TitlesAbsent(disk)) => \A u \in Users :
        (~IsAdmin(attrs, u) /\ DevKeys(attrs, u) = {})
        => get_nerd(attrs, u) = {Nerd(STR_normal, None)}

\* the file without its blank lines
RECURSIVE StripBlank(_)
StripBlank(rows) ==
    IF rows = <<>> THEN <<>>
    ELSE IF Len(Head(rows)) = 0 THEN StripBlank(Tail(rows))
    ELSE <<Head(rows)>> \o StripBlank(Tail(rows))

Stripped(dk) ==
    [dk EXCEPT !.devteam = StripBlank(dk.devteam), !.titles = StripBlank(dk.titles)]

\* C9: a roster file with a blank line loads without IndexError, and the
\* rosters are those of the file without the blank line.
C9_BlankLineSkipped ==
    (last # "new" /\ ~NoBlankRows(disk)) =>
        /\ exc # "IndexError"
        /\ exc = "none" =>
              LET f == construct(Machine([data |-> NoneData]), Stripped(disk)).attrs
              IN SameAttr(attrs, f, "devteam") /\ SameAttr(attrs, f, "player_titles")

----------------------------------------------------------------------------
(* What the specification says about the games *)

\* the inline games of the primary configuration as written
InlineDefs(dk) == IF "games" \in DOMAIN dk.conf THEN dk.conf["games"] ELSE <<>>

\* the fragment directory is configured and is a directory
FragsRead(dk) == "games_conf_d" \in DOMAIN dk.conf /\ dk.frags.isdir

\* the games of fragment file p as written
FragDefs(dk, p) ==
    IF "games" \in DOMAIN dk.frags.files[p] THEN dk.frags.files[p]["games"] ELSE <<>>

\* the definitions on disk: <<0, <<>>, i>> is the i-th inline game,
\* <<1, p, i>> the i-th game of fragment file p
Defs(dk) ==
    {<<0, <<>>, i>> : i \in DOMAIN InlineDefs(dk)} \cup
    (IF FragsRead(dk)
     THEN UNION {{<<1, p, i>> : i \in DOMAIN FragDefs(dk, p)} : p \in DOMAIN dk.frags.files}
     ELSE {})

DefAt(dk, o) == IF o[1] = 0 THEN InlineDefs(dk)[o[3]] ELSE FragDefs(dk, o[2])[o[3]]

\* the merged sequence: the primary configuration first, then the
\* fragment files by path, each in declared order
Before(o1, o2) ==
    \/ o1[1] < o2[1]
    \/ o1[1] = o2[1] /\ LexLess(o1[2], o2[2])
    \/ o1[1] = o2[1] /\ o1[2] = o2[2] /\ o1[3] < o2[3]

\* the first definition of id
FirstDef(dk, id) ==
    CHOOSE o \in Defs(dk) :
        /\ DefAt(dk, o)["id"] = id
        /\ \A o2 \in Defs(dk) : (DefAt(dk, o2)["id"] = id /\ o2 # o) => Before(o, o2)

\* a game as it was written, without the maps attached on registration
AsWritten(game) == [k \in DOMAIN game \ {"game_maps"} |-> game[k]]

\* C4: after load_games the registry holds, for every id defined on disk,
\* the first definition of the merged sequence and nothing else, and the
\* load has not been aborted by the definitions that were skipped.
C4_FirstDefinitionWins ==
    last = "construct" =>
        /\ exc = "none"
        /\ DOMAIN attrs.games = {DefAt(disk, o)["id"] : o \in Defs(disk)}
        /\ \A id \in DOMAIN attrs.games :
              AsWritten(attrs.games[id]) = DefAt(disk, FirstDef(disk, id))

\* a primary definition and a different fragment definition of the same
\* id have been loaded, from a directory that glob listed out of order
C4_Witness ==
    /\ last = "construct"
    /\ exc = "none"
    /\ FragsRead(disk)
    /\ Len(disk.frags.listing) = 2
    /\ LexLess(disk.frags.listing[2], disk.frags.listing[1])
    /\ \E o1, o2 \in Defs(disk) :
          /\ o1[1] = 0 /\ o2[1] = 1
          /\ DefAt(disk, o1)["id"] = DefAt(disk, o2)["id"]
          /\ DefAt(disk, o1) # DefAt(disk, o2)
          /\ AsWritten(attrs.games[DefAt(disk, o1)["id"]]) = DefAt(disk, o1)

\* C10: after load_games the games list of the document exists, holds no
\* id twice, and its entries are exactly the registered games, the
\* surviving fragment games after the inline ones.
C10_ListAgreesWithRegistry ==
    (last = "construct" /\ exc = "none") =>
        /\ "games" \in DOMAIN attrs.data
        /\ LET list == attrs.data["games"] IN
           /\ \A i, j \in DOMAIN list : i # j => list[i]["id"] # list[j]["id"]
           /\ Range(list) = {attrs.games[id] : id \in DOMAIN attrs.games}
           /\ \A i \in DOMAIN list :
                 i > Len(InlineDefs(disk)) =>
                     \E o \in Defs(disk) : o[1] = 1 /\ DefAt(disk, o) = AsWritten(list[i])

----------------------------------------------------------------------------
(* What the specification says about readers during a reload *)

\* C6: what a reader observes while a reload is between two statements is
\* what it would observe in the complete previous state or in the
\* complete new state.
C6_ReaderSeesOldOrNew ==
    seen # NoObs =>
        LET new == load(Machine(prev), disk) IN
        new.exc = "none" =>
            seen \in {Observe(prev), Observe(new.attrs)}

=============================================================================
